---- MODULE Spec2Model ----
(***************************************************************************)
(* Discogs: Hide listings from blocked sellers (user script).              *)
(*                                                                         *)
(* A JavaScript string is modelled as a sequence of one-character strings, *)
(* so that trimming, lowercasing, splitting, JSON encoding and percent     *)
(* decoding are computed character by character as the code computes them. *)
(***************************************************************************)
EXTENDS Integers, Sequences, FiniteSets, TLC

VARIABLES
  storage,                 \* localStorage[STORAGE_KEY]: << >> (no item) or <<text>>
  rows,                    \* the listing rows of the page, in document order
  blockedSet,              \* the script's module-level blockedSet
  currentlyShowingHidden,  \* the script's module-level toggle state
  control,                 \* the control bar: label count, button display and text
  modal,                   \* the options dialog: "absent", "shown" or "hidden"
  textarea,                \* the value of the dialog's textarea
  layout,                  \* where the page puts the control bar and the dialog
  phase,                   \* "loading" before init(), then "ready" or "crashed"
  timers,                  \* number of pending setTimeout(processListings, 150)
  loaded,                  \* result of the last loadBlockedList() call made from the console
  lastOp,                  \* history: the operation that made the last step
  passedSince              \* history: processListings() has run since the stored list was
                           \* last written and rows were last added

vars == << storage, rows, blockedSet, currentlyShowingHidden, control, modal,
           textarea, layout, phase, timers, loaded, lastOp, passedSince >>

-----------------------------------------------------------------------------
(* Characters and strings *)

Upper == << "A","B","C","D","E","F","G","H","I","J","K","L","M",
            "N","O","P","Q","R","S","T","U","V","W","X","Y","Z" >>
Lower == << "a","b","c","d","e","f","g","h","i","j","k","l","m",
            "n","o","p","q","r","s","t","u","v","w","x","y","z" >>
Digit == << "0","1","2","3","4","5","6","7","8","9" >>

\* U+212A KELVIN SIGN: a non-ASCII character whose lowercase is ASCII "k"
KELVIN == "U+212A"
\* U+00E9: a non-ASCII character (stands for any character outside ASCII)
EACUTE == "U+00E9"

NL == "\n"
CR == "\r"
TAB == "\t"
SP == " "
QUOTE == "\""
BSLASH == "\\"

WhiteSpace == { SP, NL, CR, TAB }

Range(s) == { s[i] : i \in DOMAIN s }

UpperSet == Range(Upper)
LowerSet == Range(Lower)
DigitSet == Range(Digit)

\* the lowercase of each ASCII capital
LowerOf == [ c \in UpperSet |-> Lower[CHOOSE i \in DOMAIN Upper : Upper[i] = c] ]

IndexIn(s, c) == IF c \in Range(s) THEN CHOOSE i \in DOMAIN s : s[i] = c ELSE 0

RECURSIVE Flatten(_)
Flatten(ss) == IF ss = << >> THEN << >> ELSE Head(ss) \o Flatten(Tail(ss))

\* ss.join(sep)
RECURSIVE Join(_, _)
Join(ss, sep) ==
  IF ss = << >> THEN << >>
  ELSE IF Len(ss) = 1 THEN ss[1]
  ELSE ss[1] \o sep \o Join(Tail(ss), sep)

\* a lowercase mapping that knows the ASCII capitals only
toLowerCharAscii(c) == IF c \in UpperSet THEN LowerOf[c] ELSE c

\* String.prototype.toLowerCase, character by character
toLowerChar(c) ==
  IF c \in UpperSet THEN LowerOf[c]
  ELSE IF c = KELVIN THEN "k"
  ELSE c

toLowerCase(s) == [ i \in DOMAIN s |-> toLowerChar(s[i]) ]

\* String.prototype.trim
RECURSIVE trimStart(_)
trimStart(s) ==
  IF s # << >> /\ Head(s) \in WhiteSpace THEN trimStart(Tail(s)) ELSE s

RECURSIVE trimEnd(_)
trimEnd(s) ==
  IF s # << >> /\ s[Len(s)] \in WhiteSpace THEN trimEnd(SubSeq(s, 1, Len(s) - 1)) ELSE s

trim(s) == trimEnd(trimStart(s))

\* s.split(sep) for a one-character separator (a set of separators for /\r?\n/)
RECURSIVE SplitFrom(_, _, _)
SplitFrom(s, seps, cur) ==
  IF s = << >> THEN << cur >>
  ELSE IF Head(s) \in seps THEN << cur >> \o SplitFrom(Tail(s), seps, << >>)
  ELSE SplitFrom(Tail(s), seps, Append(cur, Head(s)))

\* raw.split(/\r?\n/): a line ends at "\n"; a "\r" right before it belongs to the separator
RECURSIVE StripCRLF(_)
StripCRLF(s) ==
  IF s = << >> THEN << >>
  ELSE IF Len(s) >= 2 /\ s[1] = CR /\ s[2] = NL THEN << NL >> \o StripCRLF(SubSeq(s, 3, Len(s)))
  ELSE << Head(s) >> \o StripCRLF(Tail(s))

splitLines(s) == SplitFrom(StripCRLF(s), { NL }, << >>)
splitComma(s) == SplitFrom(s, { "," }, << >>)

-----------------------------------------------------------------------------
(* Canonicalizer *)

IsLowerAlnum(c) == c \in LowerSet \/ c \in DigitSet

\* canon(s): '' for a falsy s, else lowercase and strip every character outside [a-z0-9]
canon(s) ==
  IF s = << >> THEN << >>
  ELSE SelectSeq(toLowerCase(s), IsLowerAlnum)

\* canon called with a JS value: null and '' are falsy (line 32)
canonArg(val) == IF val.t = "null" THEN << >> ELSE canon(val.v)

-----------------------------------------------------------------------------
(* JSON text <-> values.  A value is [t |-> kind, v |-> payload]:          *)
(*   "str" (v: the string), "arr" (v: the items), "num" (v: the digits),    *)
(*   "null" and "obj" (v: << >>).                                           *)

JStr(s) == [ t |-> "str", v |-> s ]
JArr(items) == [ t |-> "arr", v |-> items ]
JNum(ds) == [ t |-> "num", v |-> ds ]
JNull == [ t |-> "null", v |-> << >> ]
JObj == [ t |-> "obj", v |-> << >> ]

ParseFail == [ ok |-> FALSE, val |-> JNull, next |-> 0 ]
ParseOk(val, next) == [ ok |-> TRUE, val |-> val, next |-> next ]

\* JSON.stringify of one string: quotes, backslashes and control characters are escaped
escapeChar(c) ==
  IF c = QUOTE THEN << BSLASH, QUOTE >>
  ELSE IF c = BSLASH THEN << BSLASH, BSLASH >>
  ELSE IF c = NL THEN << BSLASH, "n" >>
  ELSE IF c = CR THEN << BSLASH, "r" >>
  ELSE IF c = TAB THEN << BSLASH, "t" >>
  ELSE << c >>

stringifyString(s) ==
  << QUOTE >> \o Flatten([ i \in DOMAIN s |-> escapeChar(s[i]) ]) \o << QUOTE >>

\* JSON.stringify(list) for an array of strings
JSONstringify(list) ==
  << "[" >> \o Join([ i \in DOMAIN list |-> stringifyString(list[i]) ], << "," >>) \o << "]" >>

\* the body of a JSON string literal, from position j, up to its closing quote
RECURSIVE scanString(_, _, _)
scanString(text, j, acc) ==
  IF j > Len(text) THEN ParseFail
  ELSE IF text[j] = QUOTE THEN ParseOk(JStr(acc), j + 1)
  ELSE IF text[j] \in { NL, CR, TAB } THEN ParseFail
  ELSE IF text[j] = BSLASH THEN
    IF j + 1 > Len(text) THEN ParseFail
    ELSE IF text[j + 1] \in { QUOTE, BSLASH, "/" } THEN scanString(text, j + 2, Append(acc, text[j + 1]))
    ELSE IF text[j + 1] = "n" THEN scanString(text, j + 2, Append(acc, NL))
    ELSE IF text[j + 1] = "r" THEN scanString(text, j + 2, Append(acc, CR))
    ELSE IF text[j + 1] = "t" THEN scanString(text, j + 2, Append(acc, TAB))
    ELSE ParseFail
  ELSE scanString(text, j + 1, Append(acc, text[j]))

RECURSIVE scanDigits(_, _, _)
scanDigits(text, j, acc) ==
  IF j <= Len(text) /\ text[j] \in DigitSet THEN scanDigits(text, j + 1, Append(acc, text[j]))
  ELSE ParseOk(JNum(acc), j)

StartsWithAt(text, i, word) ==
  /\ i + Len(word) - 1 <= Len(text)
  /\ SubSeq(text, i, i + Len(word) - 1) = word

RECURSIVE parseValue(_, _)
RECURSIVE parseItems(_, _, _)
RECURSIVE afterItem(_, _, _)

\* one JSON value starting at position i
parseValue(text, i) ==
  IF i > Len(text) THEN ParseFail
  ELSE IF text[i] = QUOTE THEN scanString(text, i + 1, << >>)
  ELSE IF text[i] = "[" THEN
    IF i + 1 <= Len(text) /\ text[i + 1] = "]" THEN ParseOk(JArr(<< >>), i + 2)
    ELSE parseItems(text, i + 1, << >>)
  ELSE IF text[i] \in DigitSet THEN
    IF text[i] = "0" /\ i + 1 <= Len(text) /\ text[i + 1] \in DigitSet THEN ParseFail
    ELSE scanDigits(text, i, << >>)
  ELSE IF StartsWithAt(text, i, << "n", "u", "l", "l" >>) THEN ParseOk(JNull, i + 4)
  ELSE IF StartsWithAt(text, i, << "{", "}" >>) THEN ParseOk(JObj, i + 2)
  ELSE ParseFail

\* the items of an array, the next one starting at position i
parseItems(text, i, acc) == afterItem(text, parseValue(text, i), acc)

\* what follows the parsed item: a comma and more items, or the closing bracket
afterItem(text, item, acc) ==
  IF ~item.ok THEN ParseFail
  ELSE IF item.next > Len(text) THEN ParseFail
  ELSE IF text[item.next] = "," THEN parseItems(text, item.next + 1, Append(acc, item.val))
  ELSE IF text[item.next] = "]" THEN ParseOk(JArr(Append(acc, item.val)), item.next + 1)
  ELSE ParseFail

\* the parse r of a prefix of text is the parse of text when nothing follows it
wholeText(text, r) == IF r.ok /\ r.next = Len(text) + 1 THEN r ELSE ParseFail

\* JSON.parse(text): ok = FALSE stands for the SyntaxError it throws
JSONparse(text) == wholeText(text, parseValue(text, 1))

-----------------------------------------------------------------------------
(* Blocklist store *)

DEFAULT_BLOCKLIST ==
  << << "K","U","P","I","K","U","-","C","O","M" >>,
     << "K","U","P","I","K","U","-","U","S" >>,
     << "K","U","P","I","K","U","-","E","U" >>,
     << "o","n","g","a","k","u","_","e","x","p","r","e","s","s" >>,
     << "j","u","s","t","i","c","k","e","r" >>,
     << "m","a","g","i","u","s" >> >>

NoItem == << >>
Item(text) == << text >>

IsKeptEntry(v) == v.t = "str" /\ trim(v.v) # << >>

\* parsed.filter(...).map(v => v.trim()) on the entries the filter keeps
trimmedEntries(kept) == [ i \in DOMAIN kept |-> trim(kept[i].v) ]

\* a variant of the list branch of loadBlockedList that rejects the whole list when one
\* entry is not a string or is blank, instead of dropping the entry
listOfParsedStrict(parsed) ==
  IF ~parsed.ok THEN DEFAULT_BLOCKLIST
  ELSE IF parsed.val.t # "arr" THEN DEFAULT_BLOCKLIST
  ELSE IF \E i \in DOMAIN parsed.val.v : ~IsKeptEntry(parsed.val.v[i]) THEN DEFAULT_BLOCKLIST
  ELSE trimmedEntries(parsed.val.v)

\* loadBlockedList() after JSON.parse: the catch block and the Array.isArray test
\* return the defaults
listOfParsed(parsed) ==
  IF ~parsed.ok THEN DEFAULT_BLOCKLIST
  ELSE IF parsed.val.t # "arr" THEN DEFAULT_BLOCKLIST
  ELSE trimmedEntries(SelectSeq(parsed.val.v, IsKeptEntry))

\* loadBlockedList(): the list read from storage state st, or the defaults
loadBlockedList(st) ==
  IF st = NoItem THEN DEFAULT_BLOCKLIST
  ELSE IF st[1] = << >> THEN DEFAULT_BLOCKLIST
  ELSE listOfParsed(JSONparse(st[1]))

\* Array.from(new Set(xs)): first occurrences, in insertion order
RECURSIVE uniqueFrom(_, _)
uniqueFrom(xs, acc) ==
  IF xs = << >> THEN acc
  ELSE IF Head(xs) \in Range(acc) THEN uniqueFrom(Tail(xs), acc)
  ELSE uniqueFrom(Tail(xs), Append(acc, Head(xs)))

IsNonEmpty(s) == s # << >>

\* a variant of saveBlockedList that leaves out the trim before filter and Set
savedTextUntrimmed(list) == JSONstringify(uniqueFrom(SelectSeq(list, IsNonEmpty), << >>))

\* the text saveBlockedList(list) hands to localStorage.setItem
savedText(list) ==
  JSONstringify(uniqueFrom(SelectSeq([ i \in DOMAIN list |-> trim(list[i]) ], IsNonEmpty),
                           << >>))

\* new Set(arr.map(canon))
canonSet(arr) == { canon(arr[i]) : i \in DOMAIN arr }

\* buildBlockedSetFromSaved(): the canonical keys of the loaded list
buildBlockedSetFromSaved(st) == canonSet(loadBlockedList(st))

-----------------------------------------------------------------------------
(* decodeURIComponent *)

OTHERCHAR == "U+FFFD"

HexUpper == << "A","B","C","D","E","F" >>
HexLower == << "a","b","c","d","e","f" >>

IsHex(c) == c \in Range(Digit) \/ c \in Range(HexUpper) \/ c \in Range(HexLower)

hexVal(c) ==
  IF c \in Range(Digit) THEN IndexIn(Digit, c) - 1
  ELSE IF c \in Range(HexUpper) THEN IndexIn(HexUpper, c) + 9
  ELSE IndexIn(HexLower, c) + 9

\* whether s holds an escape %XX at position i
IsEscapeAt(s, i) ==
  /\ i + 2 <= Len(s)
  /\ s[i] = "%"
  /\ IsHex(s[i + 1])
  /\ IsHex(s[i + 2])

byteAt(s, i) == 16 * hexVal(s[i + 1]) + hexVal(s[i + 2])

Punct == << << 9, TAB >>, << 10, NL >>, << 13, CR >>, << 32, SP >>, << 34, QUOTE >>,
            << 35, "#" >>, << 37, "%" >>, << 44, "," >>, << 45, "-" >>, << 46, "." >>,
            << 47, "/" >>, << 63, "?" >>, << 92, BSLASH >>, << 95, "_" >> >>

\* the character of a code point (characters the model has no name for are OTHERCHAR)
charOf(cp) ==
  IF cp >= 48 /\ cp <= 57 THEN Digit[cp - 47]
  ELSE IF cp >= 65 /\ cp <= 90 THEN Upper[cp - 64]
  ELSE IF cp >= 97 /\ cp <= 122 THEN Lower[cp - 96]
  ELSE IF \E k \in DOMAIN Punct : Punct[k][1] = cp
    THEN Punct[CHOOSE k \in DOMAIN Punct : Punct[k][1] = cp][2]
  ELSE IF cp = 233 THEN EACUTE
  ELSE IF cp = 8490 THEN KELVIN
  ELSE OTHERCHAR

\* number of continuation bytes a UTF-8 lead byte asks for (-1: not a lead byte)
continuationCount(b) ==
  IF b >= 194 /\ b <= 223 THEN 1
  ELSE IF b >= 224 /\ b <= 239 THEN 2
  ELSE IF b >= 240 /\ b <= 244 THEN 3
  ELSE -1

IsContinuationAt(s, i) == IsEscapeAt(s, i) /\ byteAt(s, i) >= 128 /\ byteAt(s, i) <= 191

DecodeFail == [ ok |-> FALSE, val |-> << >> ]

\* the payload of the continuation byte at position i
continuation(s, i) == byteAt(s, i) - 128

\* the code point of a sequence with lead byte b and n continuation bytes c1, c2, c3
codePoint(b, n, c1, c2, c3) ==
  IF n = 1 THEN (b - 192) * 64 + c1
  ELSE IF n = 2 THEN (b - 224) * 4096 + c1 * 64 + c2
  ELSE (b - 240) * 262144 + c1 * 4096 + c2 * 64 + c3

\* no overlong form, no surrogate, nothing above U+10FFFF
validCodePoint(n, cp) ==
  IF n = 1 THEN TRUE
  ELSE IF n = 2 THEN cp >= 2048 /\ ~(cp >= 55296 /\ cp <= 57343)
  ELSE cp >= 65536 /\ cp <= 1114111

RECURSIVE decodeFrom(_, _, _)
RECURSIVE decodeByte(_, _, _, _)
RECURSIVE decodeSequence(_, _, _, _, _)
RECURSIVE decodeCodePoint(_, _, _, _, _)

\* decodeURIComponent(s) from position i; ok = FALSE stands for the URIError it throws
decodeFrom(s, i, acc) ==
  IF i > Len(s) THEN [ ok |-> TRUE, val |-> acc ]
  ELSE IF s[i] # "%" THEN decodeFrom(s, i + 1, Append(acc, s[i]))
  ELSE IF ~IsEscapeAt(s, i) THEN DecodeFail
  ELSE decodeByte(s, i, acc, byteAt(s, i))

\* the escape at position i stands for byte b: an ASCII character or a UTF-8 lead byte
decodeByte(s, i, acc, b) ==
  IF b < 128 THEN decodeFrom(s, i + 3, Append(acc, charOf(b)))
  ELSE decodeSequence(s, i, acc, b, continuationCount(b))

\* lead byte b asks for n continuation bytes, each an escape of its own
decodeSequence(s, i, acc, b, n) ==
  IF n = -1 THEN DecodeFail
  ELSE IF \E k \in 1..n : ~IsContinuationAt(s, i + 3 * k) THEN DecodeFail
  ELSE decodeCodePoint(s, i, acc, n,
         codePoint(b, n, continuation(s, i + 3),
                   IF n >= 2 THEN continuation(s, i + 6) ELSE 0,
                   IF n >= 3 THEN continuation(s, i + 9) ELSE 0))

decodeCodePoint(s, i, acc, n, cp) ==
  IF validCodePoint(n, cp) THEN decodeFrom(s, i + 3 * (n + 1), Append(acc, charOf(cp)))
  ELSE DecodeFail

decodeURIComponent(s) == decodeFrom(s, 1, << >>)

-----------------------------------------------------------------------------
(* Seller extraction.  A row's DOM is what the four strategies query:       *)
(*   sellerLink: first '.seller_block a[href*="/seller/"]'  (<< >> if none) *)
(*   shippingBtn: data-seller-username of the first                         *)
(*                '.show-shipping-methods[data-seller-username]'            *)
(*   dataUsername: data-username of the first '[data-username]'             *)
(*   anyAnchor: first 'a[href*="/seller/"]' of the row                      *)
(* each a sequence of length 0 (no such element) or 1.                      *)

Anchor(text, href) == [ text |-> text, href |-> href ]

asciiLowerChar(c) == IF c \in UpperSet THEN LowerOf[c] ELSE c

SellerMarker == << "/","s","e","l","l","e","r","/" >>

SegmentEnd == { "/", "?", "#" }

\* whether /\/seller\/([^\/?#]+)/i matches href at position i
MatchesAt(href, i) ==
  /\ i + Len(SellerMarker) <= Len(href)
  /\ \A k \in DOMAIN SellerMarker : asciiLowerChar(href[i + k - 1]) = SellerMarker[k]
  /\ href[i + Len(SellerMarker)] \notin SegmentEnd

RECURSIVE takeSegment(_, _)
takeSegment(href, j) ==
  IF j > Len(href) \/ href[j] \in SegmentEnd THEN << >>
  ELSE << href[j] >> \o takeSegment(href, j + 1)

\* href.match(/\/seller\/([^\/?#]+)/i): << >> for no match, else << m[1] >>
sellerSegment(href) ==
  IF \E i \in DOMAIN href : MatchesAt(href, i)
  THEN LET i == CHOOSE i \in DOMAIN href :
                  MatchesAt(href, i) /\ \A j \in 1..(i - 1) : ~MatchesAt(href, j)
       IN << takeSegment(href, i + Len(SellerMarker)) >>
  ELSE << >>

Found(s) == [ threw |-> FALSE, seller |-> << s >> ]
NotFound == [ threw |-> FALSE, seller |-> << >> ]
Threw == [ threw |-> TRUE, seller |-> << >> ]

\* what the next strategy is tried after: a return value or a thrown URIError ends
\* extractSellerFromRow
orElse(r, next) == IF r.threw \/ r.seller # << >> THEN r ELSE next

\* the value of decodeURIComponent(m[1]) as the result of extractSellerFromRow
resultOf(d) == IF d.ok THEN Found(d.val) ELSE Threw

\* return decodeURIComponent(m[1])
decoded(m) == resultOf(decodeURIComponent(m[1]))

\* if (text) return text; if (m) return decodeURIComponent(m[1])
textThenHref(text, m) ==
  IF text # << >> THEN Found(text)
  ELSE IF m # << >> THEN decoded(m)
  ELSE NotFound

\* if (m) return decodeURIComponent(m[1]); if (text) return text
hrefThenText(m, text) ==
  IF m # << >> THEN decoded(m)
  ELSE IF text # << >> THEN Found(text)
  ELSE NotFound

\* Strategy 1: .seller_block a[href*="/seller/"]
strategy1(dom) ==
  IF dom.sellerLink = << >> THEN NotFound
  ELSE textThenHref(trim(dom.sellerLink[1].text), sellerSegment(dom.sellerLink[1].href))

\* Strategy 2: shipping button with data-seller-username
strategy2(dom) ==
  IF dom.shippingBtn # << >> /\ dom.shippingBtn[1] # << >>
  THEN Found(dom.shippingBtn[1])
  ELSE NotFound

\* Strategy 3: any element with data-username
strategy3(dom) ==
  IF dom.dataUsername # << >> /\ dom.dataUsername[1] # << >>
  THEN Found(dom.dataUsername[1])
  ELSE NotFound

\* Strategy 4: any anchor with /seller/ in its href
strategy4(dom) ==
  IF dom.anyAnchor = << >> THEN NotFound
  ELSE hrefThenText(sellerSegment(dom.anyAnchor[1].href), trim(dom.anyAnchor[1].text))

\* extractSellerFromRow(row): the strategies in order; seller = << >> stands for null
extractSellerFromRow(dom) ==
  orElse(strategy1(dom), orElse(strategy2(dom), orElse(strategy3(dom), strategy4(dom))))

-----------------------------------------------------------------------------
(* Bounds and inputs *)

MaxRows == 2
MaxTimers == 2

Str_seller == << "/","s","e","l","l","e","r","/" >>

\* seller link text ' Justicker ' (a default entry up to case)
DomLinkText ==
  [ sellerLink |-> << Anchor(<< SP,"J","u","s","t","i","c","k","e","r",SP >>,
                            Str_seller \o << "J","u","s","t","i","c","k","e","r" >>) >>,
    shippingBtn |-> << >>, dataUsername |-> << >>,
    anyAnchor |-> << Anchor(<< SP,"J","u","s","t","i","c","k","e","r",SP >>,
                            Str_seller \o << "J","u","s","t","i","c","k","e","r" >>) >> ]

\* an image link '/seller/magius%/profile' outside .seller_block: its path segment
\* is not valid percent-encoding
DomMalformedHref ==
  [ sellerLink |-> << >>, shippingBtn |-> << >>, dataUsername |-> << >>,
    anyAnchor |-> << Anchor(<< >>, Str_seller \o
        << "m","a","g","i","u","s","%","/","p","r","o","f","i","l","e" >>) >> ]

\* a row that names no seller: a pagination link '/seller/?page=2' without text (its
\* href has no path segment after the marker) and empty username attributes
DomNoSeller ==
  [ sellerLink |-> << Anchor(<< NL, SP >>, Str_seller \o << "?","p","a","g","e","=","2" >>) >>,
    shippingBtn |-> << << >> >>,
    dataUsername |-> << << >> >>,
    anyAnchor |-> << Anchor(<< NL, SP >>, Str_seller \o << "?","p","a","g","e","=","2" >>) >> ]

\* the kinds of row the page can deliver, by name
Doms ==
  [ linkText |-> DomLinkText, malformedHref |-> DomMalformedHref, noSeller |-> DomNoSeller ]

RowDoms == DOMAIN Doms

\* extractSellerFromRow on each kind of row, and canon of its result (evaluated once)
sellerOfRow == [ d \in RowDoms |-> extractSellerFromRow(Doms[d]) ]

\* canon(sellerRaw) for the result of extractSellerFromRow ('' when it is null)
canonOfSeller(sellerRaw) ==
  IF sellerRaw.seller = << >> THEN << >> ELSE canon(sellerRaw.seller[1])

canonOfRow == [ d \in RowDoms |-> canonOfSeller(extractSellerFromRow(Doms[d])) ]

\* '["magius",7," cd-shop ",""]': a list mixing strings and a number
TextMixedList ==
  << "[", QUOTE,"m","a","g","i","u","s",QUOTE, ",", "7", ",",
     QUOTE,SP,"c","d","-","s","h","o","p",SP,QUOTE, ",", QUOTE,QUOTE, "]" >>

\* what the script can find in storage when it starts
InitStorage == { NoItem }

\* what the user can type into the textarea
TextareaInputs ==
  { << SP, ",", CR, NL, SP >>,
    << "c","d",".","s","h","o","p",SP,",","c","d",".","s","h","o","p",CR,NL,",",
       "J","U","S","T","I","C","K","E","R",NL >> }

Layouts == { "body", "outside" }

\* every text the textarea can hold, and every item the Save button can store
TextareaTexts ==
  TextareaInputs \cup { Join(DEFAULT_BLOCKLIST, << NL >>) }
    \cup { Join(loadBlockedList(st), << NL >>) : st \in InitStorage }

\* the Save handler's parse of the textarea: lines, then comma-separated entries
NonEmptyTrimmed(parts) ==
  SelectSeq([ i \in DOMAIN parts |-> trim(parts[i]) ], IsNonEmpty)

flattened(raw) ==
  LET lines == NonEmptyTrimmed(splitLines(raw))
  IN Flatten([ i \in DOMAIN lines |-> NonEmptyTrimmed(splitComma(lines[i])) ])

StoredItems == InitStorage \cup { Item(savedText(flattened(t))) : t \in TextareaTexts }

\* the operators above on these texts (evaluated once)
flattenedOf == [ t \in TextareaTexts |-> flattened(t) ]
savedTextOf == [ t \in TextareaTexts |-> savedText(flattened(t)) ]
loadedOf == [ st \in StoredItems |-> loadBlockedList(st) ]
blockedSetOf == [ st \in StoredItems |-> buildBlockedSetFromSaved(st) ]

\* the sequences over S of length at most n
SeqsUpTo(S, n) == UNION { [ 1..k -> S ] : k \in 0..n }

-----------------------------------------------------------------------------
(* Rows and the operations on them *)

\* a listing row (tr) as the page delivers it: no marker attribute, visible
NewRow(dom) ==
  [ dom |-> dom, processed |-> FALSE, blocked |-> FALSE, hidden |-> FALSE, display |-> "" ]

\* hideRow(row)
hideRow(row) ==
  [ row EXCEPT !.display = "none", !.blocked = TRUE, !.hidden = TRUE ]

\* a variant of unhideRow that removes the blocked marker too
unhideRowUnmarking(row) ==
  [ row EXCEPT !.display = "", !.hidden = FALSE, !.blocked = FALSE ]

\* unhideRow(row)
unhideRow(row) ==
  [ row EXCEPT !.display = "", !.hidden = FALSE ]

\* the forEach callback on a row without the processed marker: the row it leaves, or
\* the exception of extractSellerFromRow; sellerRaw and sellerCanon as in the code
callback(row, sellerRaw, sellerCanon, bs) ==
  IF sellerRaw.threw THEN [ row |-> row, threw |-> TRUE ]
  ELSE IF sellerRaw.seller = << >> THEN [ row |-> row, threw |-> FALSE ]
  ELSE IF sellerCanon \in bs THEN [ row |-> hideRow(row), threw |-> FALSE ]
  ELSE [ row |-> row, threw |-> FALSE ]

RECURSIVE forEachRow(_, _, _)
RECURSIVE afterCallback(_, _, _, _)

\* rows.forEach(...) of processListings from row i on; threw: the callback threw at a row
forEachRow(rs, i, bs) ==
  IF i > Len(rs) THEN [ rows |-> rs, threw |-> FALSE ]
  ELSE IF rs[i].processed THEN forEachRow(rs, i + 1, bs)
  ELSE afterCallback(rs, i, bs,
         callback([ rs[i] EXCEPT !.processed = TRUE ],
                  sellerOfRow[rs[i].dom], canonOfRow[rs[i].dom], bs))

\* an exception of the callback ends forEach, and processListings with it
afterCallback(rs, i, bs, c) ==
  IF c.threw THEN [ rows |-> [ rs EXCEPT ![i] = c.row ], threw |-> TRUE ]
  ELSE forEachRow([ rs EXCEPT ![i] = c.row ], i + 1, bs)

\* countBlockedRows()
countBlockedRows(rs) == Cardinality({ i \in DOMAIN rs : rs[i].blocked })

NoControl ==
  [ present |-> FALSE, label |-> 0, btnDisplay |-> "", btnText |-> "Show hidden",
    pressed |-> FALSE ]

\* createControlUI(): label 'Blocked sellers: 0 hidden', button 'Show hidden'
createControlUI == [ NoControl EXCEPT !.present = TRUE ]

\* the label and the button for n blocked rows
controlFor(ctl, n, showing) ==
  IF n = 0
  THEN [ ctl EXCEPT !.label = n, !.btnDisplay = "none", !.pressed = FALSE ]
  ELSE [ ctl EXCEPT !.label = n, !.btnDisplay = "",
                    !.btnText = IF showing THEN "Hide hidden" ELSE "Show hidden",
                    !.pressed = showing ]

\* updateControlUI()
updateControlUI(ctl, rs, showing) ==
  IF ~ctl.present THEN ctl ELSE controlFor(ctl, countBlockedRows(rs), showing)

\* processListings() once forEach has ended: updateControlUI() unless it threw
afterForEach(each, bs, ctl, showing) ==
  [ rows |-> each.rows,
    threw |-> each.threw,
    blockedSet |-> bs,
    control |-> IF each.threw THEN ctl ELSE updateControlUI(ctl, each.rows, showing) ]

\* processListings() with the set bs that buildBlockedSetFromSaved() returned
scanRows(rs, bs, ctl, showing) == afterForEach(forEachRow(rs, 1, bs), bs, ctl, showing)

\* a pass that matches against the set built by an earlier pass instead of line 127
processListingsCached(rs, st, ctl, showing) == scanRows(rs, blockedSet, ctl, showing)

\* processListings() on rows rs with storage st: the rows, the new blockedSet, the control
processListings(rs, st, ctl, showing) == scanRows(rs, blockedSetOf[st], ctl, showing)

\* a variant of toggleHiddenRows that selects every processed row, not the blocked ones
toggleRowProcessed(row, show) ==
  IF ~row.processed THEN row
  ELSE IF show THEN unhideRow(row)
  ELSE [ row EXCEPT !.display = "none", !.hidden = TRUE ]

\* the callback of blockedRows.forEach in toggleHiddenRows(show)
toggleRow(row, show) ==
  IF ~row.blocked THEN row
  ELSE IF show THEN unhideRow(row)
  ELSE [ row EXCEPT !.display = "none", !.hidden = TRUE ]

toggleRows(rs, show) == [ i \in DOMAIN rs |-> toggleRow(rs[i], show) ]

\* the Save handler's clean-up of the old markers
\* a variant of the clean-up that leaves the processed marker on the rows
cleanRowKeepingProcessed(row) ==
  IF row.blocked
  THEN [ row EXCEPT !.blocked = FALSE, !.hidden = FALSE, !.display = "" ]
  ELSE row

\* a variant of the clean-up that removes the blocked marker only
cleanRowKeepingHidden(row) ==
  IF row.blocked
  THEN [ row EXCEPT !.blocked = FALSE, !.processed = FALSE ]
  ELSE [ row EXCEPT !.processed = FALSE ]

cleanRow(row) ==
  IF row.blocked
  THEN [ row EXCEPT !.blocked = FALSE, !.hidden = FALSE, !.display = "", !.processed = FALSE ]
  ELSE [ row EXCEPT !.processed = FALSE ]

cleanRows(rs) == [ i \in DOMAIN rs |-> cleanRow(rs[i]) ]

-----------------------------------------------------------------------------
(* State machine *)

\* lastOp, a history variable: the operation of the last step (op), how it ended
\* (result; for canon the key returned), its argument (show, arg), and for
\* toggleHiddenRows the rows flagged blocked before it (before) and before the toggle
\* it follows (beforePrev)
Op(name) ==
  [ op |-> name, show |-> FALSE, result |-> "ok", before |-> {}, beforePrev |-> {},
    arg |-> << >> ]

BlockedIdx(rs) == { i \in DOMAIN rs : rs[i].blocked }

\* startObserver() has run: init() reached it
Observing == phase = "ready"

\* the control bar is inside the observed root: its text writes are childList mutations
ControlObserved == Observing /\ control.present /\ layout = "body"

\* the dialog is appended to document.body, observed when there is no #pjax_container
BodyObserved == Observing /\ layout = "body"

\* the MutationObserver callback for the records of one task, run before any other task:
\* a record with added nodes schedules processListings after 150 ms
observerCallback(t, relevant) == IF relevant THEN t + 1 ELSE t

Init ==
  /\ storage \in InitStorage
  /\ rows \in { [ i \in DOMAIN ds |-> NewRow(ds[i]) ] : ds \in SeqsUpTo(RowDoms, MaxRows) }
  /\ blockedSet = blockedSetOf[storage]
  /\ currentlyShowingHidden = FALSE
  /\ control = NoControl
  /\ modal = "absent"
  /\ textarea = << >>
  /\ layout \in Layouts
  /\ phase = "loading"
  /\ timers = 0
  /\ loaded = << >>
  /\ lastOp = Op("none")
  /\ passedSince = FALSE

\* init(): createControlUI(); processListings(); startObserver()
InitScript ==
  /\ phase = "loading"
  /\ \E p \in { processListings(rows, storage, createControlUI, currentlyShowingHidden) } :
       /\ rows' = p.rows
       /\ blockedSet' = p.blockedSet
       /\ control' = p.control
       /\ phase' = IF p.threw THEN "crashed" ELSE "ready"
       /\ lastOp' = [ Op("init") EXCEPT !.result = IF p.threw THEN "threw" ELSE "ok" ]
  /\ passedSince' = TRUE
  /\ UNCHANGED << storage, currentlyShowingHidden, modal, textarea, layout, timers, loaded >>

\* the setTimeout callback of the observer: processListings()
TimerFire ==
  /\ timers > 0
  /\ \E p \in { processListings(rows, storage, control, currentlyShowingHidden) } :
       /\ rows' = p.rows
       /\ blockedSet' = p.blockedSet
       /\ control' = p.control
       /\ timers' = observerCallback(timers - 1, ~p.threw /\ ControlObserved)
       /\ lastOp' = [ Op("timer") EXCEPT !.result = IF p.threw THEN "threw" ELSE "ok" ]
  /\ passedSince' = TRUE
  /\ UNCHANGED << storage, currentlyShowingHidden, modal, textarea, layout, phase, loaded >>

\* toggleHiddenRows(show)
toggleHiddenRows(show) ==
  /\ rows' = toggleRows(rows, show)
  /\ currentlyShowingHidden' = show
  /\ control' = updateControlUI(control, rows', show)
  /\ timers' = observerCallback(timers, ControlObserved)
  /\ timers' <= MaxTimers
  /\ lastOp' = [ Op("toggle") EXCEPT
                   !.show = show,
                   !.result = IF lastOp.op # "toggle" THEN "ok"
                              ELSE IF lastOp.show = show THEN "repeat" ELSE "flip",
                   !.before = BlockedIdx(rows),
                   !.beforePrev = IF lastOp.op = "toggle" THEN lastOp.before ELSE {} ]
  /\ UNCHANGED << storage, blockedSet, modal, textarea, layout, phase, loaded, passedSince >>

\* click on the Show hidden / Hide hidden button
ClickShowHide ==
  /\ phase # "loading"
  /\ control.present
  /\ control.btnDisplay = ""
  /\ toggleHiddenRows(~currentlyShowingHidden)

\* window.__discogsBlocker.toggleHiddenRows(show) from the console
ConsoleToggle ==
  /\ phase = "ready"
  /\ \E show \in BOOLEAN : toggleHiddenRows(show)

\* openOptionsDialog(): click on Options
ClickOptions ==
  /\ phase # "loading"
  /\ control.present
  /\ modal # "shown"
  /\ IF modal = "absent"
     THEN /\ textarea' = Join(loadedOf[storage], << NL >>)
          /\ timers' = observerCallback(timers, BodyObserved)
          /\ timers' <= MaxTimers
     ELSE UNCHANGED << textarea, timers >>
  /\ modal' = "shown"
  /\ lastOp' = Op("other")
  /\ UNCHANGED << storage, rows, blockedSet, currentlyShowingHidden, control, layout,
                  phase, loaded, passedSince >>

\* the user types into the textarea
EditTextarea ==
  /\ modal = "shown"
  /\ \E v \in TextareaInputs : textarea' = v
  /\ lastOp' = Op("other")
  /\ UNCHANGED << storage, rows, blockedSet, currentlyShowingHidden, control, modal,
                  layout, phase, timers, loaded, passedSince >>

\* click on Reset to defaults
ClickReset ==
  /\ modal = "shown"
  /\ textarea' = Join(DEFAULT_BLOCKLIST, << NL >>)
  /\ lastOp' = Op("other")
  /\ UNCHANGED << storage, rows, blockedSet, currentlyShowingHidden, control, modal,
                  layout, phase, timers, loaded, passedSince >>

\* click on Cancel, on the backdrop, or Escape
CloseDialog ==
  /\ modal = "shown"
  /\ modal' = "hidden"
  /\ lastOp' = Op("other")
  /\ UNCHANGED << storage, rows, blockedSet, currentlyShowingHidden, control, textarea,
                  layout, phase, timers, loaded, passedSince >>

\* what a handler that changes nothing leaves behind
Untouched(result) ==
  [ result |-> result, storage |-> storage, rows |-> rows, blockedSet |-> blockedSet,
    showing |-> currentlyShowingHidden, control |-> control, modal |-> modal,
    relevant |-> FALSE ]

\* the Save button's click handler on textarea value raw; confirmed: the answer to
\* confirm(); writeOk: localStorage.setItem does not throw in saveBlockedList
\* the handler after saveBlockedList stored st and processListings() ended as p: an
\* exception of processListings leaves the dialog open
Saved(st, p) ==
  [ result |-> IF p.threw THEN "threw" ELSE "saved",
    storage |-> st,
    rows |-> p.rows,
    blockedSet |-> p.blockedSet,
    showing |-> FALSE,
    control |-> p.control,
    modal |-> IF p.threw THEN "shown" ELSE "hidden",
    relevant |-> ~p.threw /\ ControlObserved ]

\* the handler once saveBlockedList returned true with st in storage
afterSave(st) == Saved(st, processListings(cleanRows(rows), st, control, FALSE))

\* a variant of the handler that cleans the markers before it looks at the result of
\* saveBlockedList
saveClickCleaningFirst(raw, confirmed, writeOk) ==
  IF flattenedOf[raw] = << >> /\ ~confirmed THEN Untouched("declined")
  ELSE IF ~writeOk
    THEN [ Untouched("failed") EXCEPT !.rows = cleanRows(rows), !.showing = FALSE ]
  ELSE afterSave(Item(savedTextOf[raw]))

saveClick(raw, confirmed, writeOk) ==
  IF flattenedOf[raw] = << >> /\ ~confirmed THEN Untouched("declined")
  ELSE IF ~writeOk THEN Untouched("failed")
  ELSE afterSave(Item(savedTextOf[raw]))

\* click on Save
ClickSave ==
  /\ modal = "shown"
  /\ \E confirmed \in BOOLEAN, writeOk \in BOOLEAN :
       \E r \in { saveClick(textarea, confirmed, writeOk) } :
         /\ storage' = r.storage
         /\ rows' = r.rows
         /\ blockedSet' = r.blockedSet
         /\ currentlyShowingHidden' = r.showing
         /\ control' = r.control
         /\ modal' = r.modal
         /\ timers' = observerCallback(timers, r.relevant)
         /\ timers' <= MaxTimers
         /\ lastOp' = [ Op("save") EXCEPT !.result = r.result ]
         /\ passedSince' = IF r.result \in { "saved", "threw" } THEN TRUE ELSE passedSince
  /\ UNCHANGED << textarea, layout, phase, loaded >>

\* the page adds listing rows (PJAX navigation, lazy loading) in one task
PageAddRows ==
  /\ phase # "loading"
  /\ \E ds \in SeqsUpTo(RowDoms, MaxRows - Len(rows)) :
       /\ ds # << >>
       /\ rows' = rows \o [ i \in DOMAIN ds |-> NewRow(ds[i]) ]
  /\ timers' = observerCallback(timers, Observing)
  /\ timers' <= MaxTimers
  /\ lastOp' = Op("other")
  /\ passedSince' = FALSE
  /\ UNCHANGED << storage, blockedSet, currentlyShowingHidden, control, modal, textarea,
                  layout, phase, loaded >>

\* the page removes a listing row: a record without added nodes, nothing is scheduled
PageRemoveRow ==
  /\ phase # "loading"
  /\ \E i \in DOMAIN rows :
       rows' = SubSeq(rows, 1, i - 1) \o SubSeq(rows, i + 1, Len(rows))
  /\ timers' = observerCallback(timers, FALSE)
  /\ lastOp' = Op("other")
  /\ UNCHANGED << storage, blockedSet, currentlyShowingHidden, control, modal, textarea,
                  layout, phase, loaded, passedSince >>

Next ==
  \/ InitScript
  \/ TimerFire
  \/ ClickShowHide
  \/ ConsoleToggle
  \/ ClickOptions
  \/ EditTextarea
  \/ ClickReset
  \/ CloseDialog
  \/ ClickSave
  \/ PageAddRows
  \/ PageRemoveRow

Spec == Init /\ [][Next]_vars

\* another tab of the same origin saves a different list: localStorage is shared, this
\* page gets no call and no mutation record
OtherTabSave ==
  /\ phase # "loading"
  /\ storage' \in StoredItems \ { storage }
  /\ lastOp' = Op("other")
  /\ passedSince' = FALSE
  /\ UNCHANGED << rows, blockedSet, currentlyShowingHidden, control, modal, textarea,
                  layout, phase, timers, loaded >>

\* the passes of one page while the page adds rows and another tab edits the list
NextBand ==
  \/ InitScript
  \/ TimerFire
  \/ PageAddRows
  \/ OtherTabSave

SpecBand == Init /\ [][NextBand]_vars

-----------------------------------------------------------------------------
(* The blocklist store on its own: saveBlockedList and loadBlockedList called *)
(* through window.__discogsBlocker on a page without listing rows.            *)

\* '{"a"': not JSON
TextNotJSON == << "{", QUOTE, "a", QUOTE >>
\* '7', '{}', 'null', '"magius"': JSON, but no list
TextNumber == << "7" >>
TextObject == << "{", "}" >>
TextNull == << "n", "u", "l", "l" >>
TextString == << QUOTE, "m", "a", "g", "i", "u", "s", QUOTE >>
\* '[7,null]': a list without strings
TextNumberList == << "[", "7", ",", "n", "u", "l", "l", "]" >>
\* '[" a","a "]': a list of strings
TextStringList == << "[", QUOTE, SP, "a", QUOTE, ",", QUOTE, "a", SP, QUOTE, "]" >>

MissingItems == { NoItem, Item(<< >>) }
NotJSONItems == { Item(TextNotJSON) }
NotListItems == { Item(TextNumber), Item(TextObject), Item(TextNull), Item(TextString) }

\* persisted lists, each with the strings it holds, trimmed, blank ones left out
ListItems ==
  { [ item |-> Item(TextMixedList),
      strings |-> << << "m","a","g","i","u","s" >>, << "c","d","-","s","h","o","p" >> >> ],
    [ item |-> Item(TextNumberList), strings |-> << >> ],
    [ item |-> Item(TextStringList), strings |-> << << "a" >>, << "a" >> >> ],
    [ item |-> Item(<< "[", "]" >>), strings |-> << >> ] }

NotAllStringsItems == { Item(TextMixedList), Item(TextNumberList) }

StoreItems ==
  MissingItems \cup NotJSONItems \cup NotListItems \cup { l.item : l \in ListItems }

\* lists handed to saveBlockedList
SaveInputs ==
  { << >>,
    << << SP, "a", TAB >>, << >>, << "a" >>, << "A" >>, << "a", "-" >>, << SP, NL >>,
       << "A" >>, << "a", SP >> >>,
    << << "a", ".", "b" >>, << "A", "-", "B" >>, << "a", "b" >> >>,
    << << "a", QUOTE, BSLASH >>, << "a", NL, "b" >> >> }

StoreInit ==
  /\ storage \in StoreItems
  /\ rows = << >>
  /\ blockedSet = buildBlockedSetFromSaved(storage)
  /\ currentlyShowingHidden = FALSE
  /\ control = updateControlUI(createControlUI, << >>, FALSE)
  /\ modal = "absent"
  /\ textarea = << >>
  /\ layout = "body"
  /\ phase = "ready"
  /\ timers = 0
  /\ loaded = << >>
  /\ lastOp = Op("none")
  /\ passedSince = TRUE

\* window.__discogsBlocker.saveBlockedList(list)
ConsoleSave ==
  /\ phase = "ready"
  /\ \E list \in SaveInputs, writeOk \in BOOLEAN :
       /\ storage' = IF writeOk THEN Item(savedText(list)) ELSE storage
       /\ lastOp' = [ Op("consoleSave") EXCEPT
                        !.arg = list, !.result = IF writeOk THEN "saved" ELSE "failed" ]
       /\ passedSince' = IF writeOk THEN FALSE ELSE passedSince
  /\ UNCHANGED << rows, blockedSet, currentlyShowingHidden, control, modal, textarea,
                  layout, phase, timers, loaded >>

\* window.__discogsBlocker.loadBlockedList(); the history keeps the list saved by the
\* call right before it
ConsoleLoad ==
  /\ phase = "ready"
  /\ loaded' = loadBlockedList(storage)
  /\ lastOp' = IF lastOp.op = "consoleSave" /\ lastOp.result = "saved"
               THEN [ Op("consoleLoad") EXCEPT !.arg = lastOp.arg, !.result = "afterSave" ]
               ELSE Op("consoleLoad")
  /\ UNCHANGED << storage, rows, blockedSet, currentlyShowingHidden, control, modal,
                  textarea, layout, phase, timers, passedSince >>

StoreNext == ConsoleSave \/ ConsoleLoad

SpecStore == StoreInit /\ [][StoreNext]_vars

-----------------------------------------------------------------------------
(* canon on its own: every short string over a few characters, and null *)

MaxCanonLen == 3

\* a lower-case letter, a capital, a digit, a separator, and two characters outside ASCII
CanonChars == { "k", "B", "7", "-", KELVIN, EACUTE }

CanonInputs == { JNull } \cup { JStr(x) : x \in SeqsUpTo(CanonChars, MaxCanonLen) }

CanonInit ==
  /\ storage = NoItem
  /\ rows = << >>
  /\ blockedSet = {}
  /\ currentlyShowingHidden = FALSE
  /\ control = NoControl
  /\ modal = "absent"
  /\ textarea = << >>
  /\ layout = "body"
  /\ phase = "loading"
  /\ timers = 0
  /\ loaded = << >>
  /\ \E val \in CanonInputs : lastOp = [ Op("none") EXCEPT !.arg = val ]
  /\ passedSince = FALSE

\* canon(s) for the input: the history keeps the argument and the key returned
CanonCall ==
  /\ lastOp.op = "none"
  /\ lastOp' = [ Op("canon") EXCEPT !.arg = lastOp.arg, !.result = canonArg(lastOp.arg) ]
  /\ UNCHANGED << storage, rows, blockedSet, currentlyShowingHidden, control, modal,
                  textarea, layout, phase, timers, loaded, passedSince >>

\* canon applied to the key it has just returned
CanonAgain ==
  /\ lastOp.op = "canon"
  /\ lastOp' = [ Op("canonAgain") EXCEPT
                   !.arg = JStr(lastOp.result), !.result = canonArg(JStr(lastOp.result)) ]
  /\ UNCHANGED << storage, rows, blockedSet, currentlyShowingHidden, control, modal,
                  textarea, layout, phase, timers, loaded, passedSince >>

CanonNext == CanonCall \/ CanonAgain

SpecCanon == CanonInit /\ [][CanonNext]_vars

-----------------------------------------------------------------------------
(* Properties *)

\* the steps that are a reconciliation pass by itself: init()'s and the timer's
Pass == { "init", "timer" }

\* a seller was extracted from a row of kind dom and its canonical key is in the
\* canonical set of the list stored as st
Matches(dom, st) == sellerOfRow[dom].seller # << >> /\ canonOfRow[dom] \in blockedSetOf[st]

\* the three flags of a row
Flags(row) == << row.processed, row.blocked, row.hidden >>

\* C1: once init() has run and no delayed pass is pending (nothing more will run unless
\* the page changes again), every row on the page whose seller's canonical key is in the
\* canonical set of the stored blocklist is flagged blocked
C1_MatchingRowsGetBlocked ==
  (phase # "loading" /\ timers = 0) =>
    \A i \in DOMAIN rows : Matches(rows[i].dom, storage) => rows[i].blocked

\* C2: a pass leaves every row that had no processed marker before it with
\* blocked = hidden = TRUE if a seller was extracted and its key is in the canonical
\* set of the blocklist, and with neither flag otherwise
C2_PassClassifiesUnprocessedRows ==
  [][ lastOp'.op \in Pass =>
        \A i \in DOMAIN rows :
          ~rows[i].processed =>
            /\ rows'[i].blocked = Matches(rows[i].dom, storage')
            /\ rows'[i].hidden = Matches(rows[i].dom, storage') ]_vars

\* C3: after a Save that stored the list, every row is processed and has
\* blocked = hidden = (its seller's key is in the canonical set of the saved list)
C3_SaveReappliesTheList ==
  (lastOp.op = "save" /\ lastOp.result \in { "saved", "threw" }) =>
    \A i \in DOMAIN rows :
      /\ rows[i].processed
      /\ rows[i].blocked = Matches(rows[i].dom, storage)
      /\ rows[i].hidden = Matches(rows[i].dom, storage)

\* C4: toggleHiddenRows(show) sets hidden = ~show on every row flagged blocked, changes
\* no blocked or processed flag, leaves the hidden flag of the other rows and the stored
\* blocklist alone, and a second call with the same argument changes no flag
C4_ToggleSetsHiddenOnly ==
  [][ lastOp'.op = "toggle" =>
        /\ DOMAIN rows' = DOMAIN rows
        /\ \A i \in DOMAIN rows :
             /\ rows'[i].blocked = rows[i].blocked
             /\ rows'[i].processed = rows[i].processed
             /\ rows[i].blocked => rows'[i].hidden = ~lastOp'.show
             /\ ~rows[i].blocked => rows'[i].hidden = rows[i].hidden
        /\ storage' = storage
        /\ lastOp'.result = "repeat" =>
             \A i \in DOMAIN rows : Flags(rows'[i]) = Flags(rows[i]) ]_vars

\* C4 happens: toggleHiddenRows(true) was called twice in a row on a page with a
\* revealed blocked row and a row that is not blocked
C4_Witness ==
  /\ lastOp.op = "toggle"
  /\ lastOp.show
  /\ lastOp.result = "repeat"
  /\ \E i \in DOMAIN rows : rows[i].blocked /\ ~rows[i].hidden
  /\ \E i \in DOMAIN rows : ~rows[i].blocked

\* C5: toggleHiddenRows(true) followed by toggleHiddenRows(false) leaves every blocked
\* row hidden and blocked, and the set of blocked rows as it was before the two calls
C5_RevealThenHideRestores ==
  (lastOp.op = "toggle" /\ ~lastOp.show /\ lastOp.result = "flip") =>
    /\ BlockedIdx(rows) = lastOp.beforePrev
    /\ \A i \in lastOp.beforePrev :
         rows[i].blocked /\ rows[i].hidden /\ rows[i].display = "none"

\* C5 happens: the two calls were made on a page with a blocked row
C5_Witness ==
  /\ lastOp.op = "toggle"
  /\ ~lastOp.show
  /\ lastOp.result = "flip"
  /\ lastOp.beforePrev # {}
  /\ \E i \in DOMAIN rows : ~rows[i].blocked

\* C6: a pass that runs when a pass has already run since the stored blocklist last
\* changed and rows were last added changes no row's processed, blocked or hidden flag
C6_SecondPassChangesNothing ==
  [][ (passedSince /\ lastOp'.op \in Pass) =>
        /\ DOMAIN rows' = DOMAIN rows
        /\ \A i \in DOMAIN rows : Flags(rows'[i]) = Flags(rows[i]) ]_vars

\* the stored values C7 calls missing or malformed
MalformedItems == MissingItems \cup NotJSONItems \cup NotListItems \cup NotAllStringsItems

\* C7 as stated: loadBlockedList() returns the defaults whenever the key is absent, or
\* the value is not JSON, not a list, or a list that is not entirely strings
C7_DefaultsWhenMalformed ==
  (lastOp.op = "consoleLoad" /\ storage \in MalformedItems) => loaded = DEFAULT_BLOCKLIST

\* C7, amended: loadBlockedList() returns the defaults when the key is absent or the
\* value is empty, not JSON or not a list; for a stored list it returns the strings of
\* the list, trimmed, without the entries that are not strings or are blank
C7_DefaultsUnlessList ==
  lastOp.op = "consoleLoad" =>
    /\ storage \in MissingItems \cup NotJSONItems \cup NotListItems =>
         loaded = DEFAULT_BLOCKLIST
    /\ \A l \in ListItems : storage = l.item => loaded = l.strings

\* C7 happens: a list mixing strings and a number was loaded and gave its two strings
C7_Witness ==
  /\ lastOp.op = "consoleLoad"
  /\ storage = Item(TextMixedList)
  /\ Len(loaded) = 2
  /\ loaded # DEFAULT_BLOCKLIST

\* the positions of e that hold the first occurrence of a non-empty string
firstSeen(e) == { i \in DOMAIN e : e[i] # << >> /\ \A j \in 1..(i - 1) : e[j] # e[i] }

\* the entries of e at the positions idx, in the order of e, from position i on
RECURSIVE entriesAt(_, _, _)
entriesAt(e, idx, i) ==
  IF i > Len(e) THEN << >>
  ELSE IF i \in idx THEN << e[i] >> \o entriesAt(e, idx, i + 1)
  ELSE entriesAt(e, idx, i + 1)

\* e without its empty strings and its repeated strings
withoutRepeats(e) == entriesAt(e, firstSeen(e), 1)

\* e with each entry trimmed, empty entries and exact duplicates removed, first-seen order
trimmedDistinct(e) == withoutRepeats([ i \in DOMAIN e |-> trim(e[i]) ])

\* C8: loadBlockedList() right after a successful saveBlockedList(e) returns e with each
\* entry trimmed, empty entries and exact duplicates removed in first-seen order; every
\* non-blank entry is kept up to trimming, and the empty list comes back empty
C8_LoadAfterSave ==
  (lastOp.op = "consoleLoad" /\ lastOp.result = "afterSave") =>
    /\ loaded = trimmedDistinct(lastOp.arg)
    /\ \A i \in DOMAIN lastOp.arg :
         trim(lastOp.arg[i]) # << >> => trim(lastOp.arg[i]) \in Range(loaded)
    /\ lastOp.arg = << >> => loaded = << >>

\* C8 happens: a list with entries that differ only in case and separators was saved
\* and loaded, and all three came back
C8_Witness ==
  /\ lastOp.op = "consoleLoad"
  /\ lastOp.result = "afterSave"
  /\ lastOp.arg = << << "a", ".", "b" >>, << "A", "-", "B" >>, << "a", "b" >> >>
  /\ loaded = lastOp.arg

\* C9: a Save whose write to storage fails leaves the stored blocklist, blockedSet,
\* every row and the toggle state as they were
C9_FailedSaveChangesNothing ==
  [][ (lastOp'.op = "save" /\ lastOp'.result = "failed") =>
        /\ storage' = storage
        /\ blockedSet' = blockedSet
        /\ rows' = rows
        /\ currentlyShowingHidden' = currentlyShowingHidden ]_vars

\* C9 happens: the write failed for an edited list while blocked rows were revealed
C9_Witness ==
  /\ lastOp.op = "save"
  /\ lastOp.result = "failed"
  /\ currentlyShowingHidden
  /\ flattenedOf[textarea] # loadedOf[storage]
  /\ \E i \in DOMAIN rows : rows[i].blocked /\ ~rows[i].hidden

\* C10: no pass ends in an exception: after init(), a timer pass or a Save that stored
\* the list, every row is processed and the control bar shows the count of blocked rows
C10_PassNeverCrashes ==
  (lastOp.op \in Pass \/ (lastOp.op = "save" /\ lastOp.result \in { "saved", "threw" })) =>
    /\ lastOp.result # "threw"
    /\ \A i \in DOMAIN rows : rows[i].processed
    /\ control.label = countBlockedRows(rows)

\* C11: at any time at most one delayed pass is pending
C11_AtMostOnePendingPass == timers <= 1

\* C12: once the control bar exists, its label shows the number of rows flagged blocked
\* and the Show/Hide button is hidden exactly when that number is 0
C12_ReadoutMatchesCount ==
  control.present =>
    /\ control.label = countBlockedRows(rows)
    /\ (control.btnDisplay = "none") <=> (countBlockedRows(rows) = 0)

\* C15: every processed row is flagged blocked if and only if a seller was extracted for
\* it and the seller's canonical key is in the canonical set of the stored blocklist
C15_ProcessedRowsFollowTheList ==
  \A i \in DOMAIN rows :
    rows[i].processed => (rows[i].blocked <=> Matches(rows[i].dom, storage))

\* C15 happens: a Save stored a list other than the one loaded at the start, and a row
\* that the defaults block was processed again and is not blocked under the new list
C15_Witness ==
  /\ lastOp.op = "save"
  /\ lastOp.result = "saved"
  /\ blockedSetOf[storage] # blockedSetOf[NoItem]
  /\ \E i \in DOMAIN rows :
       /\ rows[i].processed
       /\ ~rows[i].blocked
       /\ Matches(rows[i].dom, NoItem)

\* C16: a row flagged hidden is flagged blocked, and a row flagged blocked is flagged
\* processed
C16_HiddenBlockedProcessed ==
  \A i \in DOMAIN rows :
    /\ rows[i].hidden => rows[i].blocked
    /\ rows[i].blocked => rows[i].processed

\* C16 happens: after a Save, the page holds a row that is blocked
\* and revealed next to one that is processed and not blocked
C16_Witness ==
  /\ \E i \in DOMAIN rows : rows[i].blocked /\ ~rows[i].hidden /\ rows[i].processed
  /\ \E i \in DOMAIN rows : rows[i].processed /\ ~rows[i].blocked /\ ~rows[i].hidden
  /\ storage # NoItem

\* C17: every blocked row agrees with the toggle state: hidden when
\* currentlyShowingHidden is false, revealed when it is true
C17_BlockedRowsFollowToggle ==
  \A i \in DOMAIN rows :
    rows[i].blocked => (rows[i].hidden <=> ~currentlyShowingHidden)

\* C18: a delayed pass schedules no further pass: each one that runs leaves fewer
\* pending than before, so that without page changes and user actions none remains
C18_PassSchedulesNoPass ==
  [][ lastOp'.op = "timer" => timers' < timers ]_vars

\* C14: every pass matches against the list as stored when the pass starts, not against
\* a set kept from an earlier pass: after the pass blockedSet is the canonical set of
\* the stored list, and every row the pass examines for the first time is blocked
\* exactly if its seller's key is in that list, whoever stored it
C14_PassUsesPersistedList ==
  [][ lastOp'.op \in Pass =>
        /\ blockedSet' = blockedSetOf[storage]
        /\ \A i \in DOMAIN rows :
             (~rows[i].processed /\ rows'[i].processed) =>
               (rows'[i].blocked <=> Matches(rows[i].dom, storage)) ]_vars

\* C14 happens: after a delayed pass the page holds two rows of the same seller, one
\* blocked by a pass under the first list and one left visible by a pass that ran
\* after another tab stored a list without that seller
C14_Witness ==
  /\ lastOp.op = "timer"
  /\ blockedSet = blockedSetOf[storage]
  /\ blockedSet # blockedSetOf[NoItem]
  /\ \E i, j \in DOMAIN rows :
       /\ rows[i].dom = rows[j].dom
       /\ rows[i].processed /\ rows[i].blocked
       /\ rows[j].processed /\ ~rows[j].blocked

\* the ASCII letters and digits
AsciiAlnum == UpperSet \cup LowerSet \cup DigitSet

IsAsciiAlnum(c) == c \in AsciiAlnum

\* the characters whose lowercase form is in [a-z0-9]: the ASCII letters and digits,
\* and the Kelvin sign, whose lowercase is "k"
KeptByCanon == AsciiAlnum \cup { KELVIN }

IsKeptByCanon(c) == c \in KeptByCanon

\* the same letter up to case: equal, or an ASCII letter and its capital, or the
\* Kelvin sign and a "k" or "K"
sameLetter(c, d, caseless) ==
  \/ c = d
  \/ c \in UpperSet /\ LowerOf[c] = d
  \/ d \in UpperSet /\ LowerOf[d] = c
  \/ caseless /\ { c, d } \in { { KELVIN, "k" }, { KELVIN, "K" } }

sameLetters(a, b, caseless) ==
  /\ Len(a) = Len(b)
  /\ \A i \in DOMAIN a : sameLetter(a[i], b[i], caseless)

\* x and y differ only in letter case and in the characters that do not count
differOnlyInCaseAndSeparators(x, y, counts(_), caseless) ==
  sameLetters(SelectSeq(x, counts), SelectSeq(y, counts), caseless)

\* the key of one character: its lowercase form if that is in [a-z0-9], else nothing
keyOfChar(c) ==
  IF c \in UpperSet THEN << LowerOf[c] >>
  ELSE IF c \in LowerSet \cup DigitSet THEN << c >>
  ELSE IF c = KELVIN THEN << "k" >>
  ELSE << >>

\* the input's ASCII letters and digits in order, lowercased
asciiKey(val) ==
  IF val.t = "null" THEN << >>
  ELSE [ i \in DOMAIN SelectSeq(val.v, IsAsciiAlnum) |->
           toLowerCharAscii(SelectSeq(val.v, IsAsciiAlnum)[i]) ]

====
